---- MODULE Spec2Model ----
(***************************************************************************)
(* Model of reproduction/sim/parameters.py: the Distribution classes       *)
(* (Normal, Uniform), each owning a numpy RandomState, and the frozen      *)
(* dataclass Scenario whose class body builds its default distributions.   *)
(*                                                                         *)
(* Floats are fixed-point integers: Scale units make 1.0, and a product    *)
(* that does not fall on the grid is rounded to the nearest unit, ties to  *)
(* even, as IEEE arithmetic rounds to the nearest representable value.     *)
(* Python's None is the empty tuple <<>>, a present value v is <<v>>.      *)
(***************************************************************************)
EXTENDS Integers, Sequences, FiniteSets

VARIABLES heap, log, scenarios, scnlog, last

vars == <<heap, log, scenarios, scnlog, last>>

---------------------------------------------------------------------------
(* Bounds and input sets                                                   *)

\* Total number of sample calls in one behaviour.
MaxCalls == 3

\* The size arguments tried: None (a scalar), and batches of 0 and 2.
Sizes == {<<>>, <<0>>, <<2>>}

\* Number of states of the generator (numpy's RandomState, abstracted).
M == 8

\* Fixed-point units per 1.0.
Scale == M

\* Integer seeds a caller passes as random_state.
Seeds == {1}

\* What RandomState(seed=None) may read from the operating system.
Entropy == {0, 5}

---------------------------------------------------------------------------
(* numpy.random.RandomState, abstracted to a full-period generator         *)

\* One step of the generator: every variate drawn advances it once.
Step(s) == (5 * s + 3) % M

RECURSIVE StateAt(_, _)
\* The generator state after n variates drawn from state s.
StateAt(s, n) == IF n = 0 THEN s ELSE StateAt(Step(s), n - 1)

\* a / b for b > 0, rounded to the nearest integer, ties to even.
RoundDiv(a, b) ==
    LET q == a \div b
        r == a % b
    IN  IF 2 * r < b THEN q
        ELSE IF 2 * r > b THEN q + 1
        ELSE IF q % 2 = 0 THEN q ELSE q + 1

\* random_sample(): the unit-uniform variate of state s is s / M, in [0, 1).
\* uniform(low, high) computes low + (high - low) * random_sample().
RandUniform(s, low, high) == low + RoundDiv((high - low) * s, M)

\* The standard normal variate of state s is (s - M/2) / 2, in [-2, 2).
\* normal(loc, scale) computes loc + scale * standard_normal().
RandNormal(s, loc, scale) == loc + RoundDiv(scale * (s - (M \div 2)), 2)

\* Distribution.__init__ with the seed ignored: every stream from entropy.
RandomStateUnseeded(seed, e) == e

\* RandomState(seed=random_state): an integer seed fixes the initial state,
\* None takes it from the operating system's entropy e.
RandomState(seed, e) == IF seed = <<>> THEN e ELSE seed[1] % M

\* What a call returns: a scalar, an array, or an exception raised.
Scalar(v) == [kind |-> "scalar", vals |-> <<v>>]
Array(vs) == [kind |-> "array", vals |-> vs]
Raise(exc) == [kind |-> exc, vals |-> <<>>]

\* Number of variates a call with this size argument draws.
Count(size) == IF size = <<>> THEN 1 ELSE size[1]

---------------------------------------------------------------------------
(* Normal                                                                  *)

NormalInit(mean, std, minimum, seed, e) ==
    [cls |-> "Normal", mean |-> mean, std |-> std, minimum |-> minimum,
     rand |-> RandomState(seed, e)]

\* Python's max(a, b): b only when b > a.
PyMax(a, b) == IF b > a THEN b ELSE a

\* The variates drawn by self._rand.normal(self.mean, self.std, size=size).
NormalDraws(self, size) ==
    [t \in 1..Count(size) |->
        RandNormal(StateAt(self.rand, t - 1), self.mean, self.std)]

\* Normal.sample with the array branch's truncation forgotten.
NormalSampleScalarOnly(self, size) ==
    IF self.std < 0 THEN [self |-> self, ret |-> Raise("ValueError")]
    ELSE LET sample == NormalDraws(self, size)
             after == [self EXCEPT !.rand = StateAt(self.rand, Count(size))]
         IN  IF self.minimum # <<>> /\ size = <<>>
             THEN [self |-> after,
                   ret |-> Scalar(PyMax(sample[1], self.minimum[1]))]
             ELSE [self |-> after,
                   ret |-> IF size = <<>> THEN Scalar(sample[1])
                           ELSE Array(sample)]

\* Normal.sample as rejection sampling: a variate below the minimum is
\* drawn again (once) before it is truncated.
NormalSampleReject(self, size) ==
    IF self.std < 0 THEN [self |-> self, ret |-> Raise("ValueError")]
    ELSE LET n == Count(size)
             first == NormalDraws(self, size)
             low == IF self.minimum = <<>> THEN {}
                    ELSE {t \in 1..n : first[t] < self.minimum[1]}
             again == RandNormal(StateAt(self.rand, n), self.mean, self.std)
             out == [t \in 1..n |->
                       IF t \in low THEN PyMax(again, self.minimum[1])
                       ELSE first[t]]
             used == IF low = {} THEN n ELSE n + 1
             after == [self EXCEPT !.rand = StateAt(self.rand, used)]
         IN  [self |-> after,
              ret |-> IF size = <<>> THEN Scalar(out[1]) ELSE Array(out)]

\* Normal.sample that keeps the truncated value in self.minimum.
NormalSampleMutating(self, size) ==
    IF self.std < 0 THEN [self |-> self, ret |-> Raise("ValueError")]
    ELSE LET sample == NormalDraws(self, size)
             after == [self EXCEPT !.rand = StateAt(self.rand, Count(size))]
         IN  IF self.minimum # <<>> /\ size = <<>>
             THEN [self |-> [after EXCEPT
                               !.minimum = <<PyMax(sample[1], self.minimum[1])>>],
                   ret |-> Scalar(PyMax(sample[1], self.minimum[1]))]
             ELSE [self |-> after,
                   ret |-> IF size = <<>> THEN Scalar(sample[1])
                           ELSE Array([t \in 1..Count(size) |->
                                   IF self.minimum # <<>>
                                      /\ sample[t] < self.minimum[1]
                                   THEN self.minimum[1] ELSE sample[t]])]

\* Normal.sample(size): the instance afterwards and what the call returns.
\* numpy's normal raises ValueError for scale < 0 before it draws.
NormalSample(self, size) ==
    IF self.std < 0 THEN [self |-> self, ret |-> Raise("ValueError")]
    ELSE LET sample == NormalDraws(self, size)
             after == [self EXCEPT !.rand = StateAt(self.rand, Count(size))]
         IN  IF self.minimum # <<>>
             THEN IF size = <<>>
                  THEN [self |-> after,
                        ret |-> Scalar(PyMax(sample[1], self.minimum[1]))]
                  ELSE [self |-> after,
                        ret |-> Array([t \in 1..Count(size) |->
                                  IF sample[t] < self.minimum[1]
                                  THEN self.minimum[1] ELSE sample[t]])]
             ELSE [self |-> after,
                   ret |-> IF size = <<>> THEN Scalar(sample[1])
                           ELSE Array(sample)]

---------------------------------------------------------------------------
(* Uniform                                                                 *)

UniformInit(minimum, maximum, seed, e) ==
    [cls |-> "Uniform", maximum |-> maximum, minimum |-> minimum,
     rand |-> RandomState(seed, e)]

\* Uniform.sample with the bounds passed in the wrong order of use: the
\* range is added to the maximum.
UniformSampleShifted(self, size) ==
    LET sample == [t \in 1..Count(size) |->
                     RandUniform(StateAt(self.rand, t - 1), self.maximum,
                                 2 * self.maximum - self.minimum)]
    IN  [self |-> [self EXCEPT !.rand = StateAt(self.rand, Count(size))],
         ret |-> IF size = <<>> THEN Scalar(sample[1]) ELSE Array(sample)]

\* Uniform.sample(size): the variates are passed through unchanged.
UniformSample(self, size) ==
    LET sample == [t \in 1..Count(size) |->
                     RandUniform(StateAt(self.rand, t - 1), self.minimum,
                                 self.maximum)]
    IN  [self |-> [self EXCEPT !.rand = StateAt(self.rand, Count(size))],
         ret |-> IF size = <<>> THEN Scalar(sample[1]) ELSE Array(sample)]

\* Distribution.sample, dispatched on the instance's class.
SampleOf(self, size) ==
    IF self.cls = "Normal" THEN NormalSample(self, size)
    ELSE UniformSample(self, size)

---------------------------------------------------------------------------
(* Scenario: a frozen dataclass                                            *)

\* A Python value held by a Scenario attribute: a number (in hundredths),
\* a bool, or a reference to a Distribution instance of the heap.
Num(v) == [tag |-> "num", val |-> v]
Bool(b) == [tag |-> "bool", val |-> IF b THEN 1 ELSE 0]
Ref(i) == [tag |-> "ref", val |-> i]

\* The Distribution instances the class body constructs, in its order; an
\* instance's place in this sequence is its identity on the heap.
DefaultNames ==
    <<"time_to_infection", "time_positive", "requiring_inpatient_random",
      "time_pos_before_inpatient", "time_inpatient", "mortality_rand",
      "will_be_infected_rand">>

\* The annotated attributes that hold a Distribution.
DistFieldNames ==
    {"time_to_infection", "time_positive", "requiring_inpatient_random",
     "time_pos_before_inpatient", "time_inpatient"}

\* The annotated attributes holding a scalar.
ScalarFieldNames ==
    {"run_length", "audit_interval", "total_proportion_people_infected",
     "prop_neg_patients_cov_query", "proportion_pos_requiring_inpatient",
     "mortality", "random_positive_rate_at_start", "open_all_sessions",
     "drop_to_two_sessions", "prop_patients_drop_to_two_sessions"}

\* The dataclass fields: the annotated class attributes, and only those.
FieldNames == ScalarFieldNames \cup DistFieldNames

\* Class attributes assigned without an annotation: no dataclass fields.
ClassAttrNames == {"mortality_rand", "will_be_infected_rand"}

\* Every name the class body binds.
ParamNames == FieldNames \cup ClassAttrNames

\* Every attribute holding a Distribution.
DistNames == DistFieldNames \cup ClassAttrNames

\* The heap identity of the default instance the class body binds to name.
DefaultId(name) == CHOOSE i \in 1..Len(DefaultNames) : DefaultNames[i] = name

\* The class body's distributions, each seeded from entropy (no
\* random_state is given): ev[i] is what the i-th constructor reads.
ClassBody(ev) ==
    <<NormalInit(60 * Scale, 15 * Scale, <<0>>, <<>>, ev[1]),
      UniformInit(7 * Scale, 14 * Scale, <<>>, ev[2]),
      UniformInit(0, 1 * Scale, <<>>, ev[3]),
      UniformInit(3 * Scale, 7 * Scale, <<>>, ev[4]),
      UniformInit(7 * Scale, 14 * Scale, <<>>, ev[5]),
      UniformInit(0, 1 * Scale, <<>>, ev[6]),
      UniformInit(0, 1 * Scale, <<>>, ev[7])>>

\* The class attribute bound to each name: the defaults, built once.
ClassDefault(name) ==
    CASE name = "run_length" -> Num(20000)
      [] name = "audit_interval" -> Num(100)
      [] name = "total_proportion_people_infected" -> Num(80)
      [] name = "prop_neg_patients_cov_query" -> Num(2)
      [] name = "proportion_pos_requiring_inpatient" -> Num(40)
      [] name = "mortality" -> Num(15)
      [] name = "random_positive_rate_at_start" -> Num(0)
      [] name = "open_all_sessions" -> Bool(FALSE)
      [] name = "drop_to_two_sessions" -> Bool(FALSE)
      [] name = "prop_patients_drop_to_two_sessions" -> Num(90)
      [] OTHER -> Ref(DefaultId(name))

\* The generated __init__(**kw): a keyword that is no field is a
\* TypeError; a field not given takes the class attribute as its default.
ScenarioInit(kw) ==
    IF DOMAIN kw \subseteq FieldNames
    THEN [raised |-> "",
          inst |-> [n \in FieldNames |->
                      IF n \in DOMAIN kw THEN kw[n] ELSE ClassDefault(n)]]
    ELSE [raised |-> "TypeError", inst |-> <<>>]

\* Attribute lookup: the instance's own fields, then the class.
GetAttr(inst, name) ==
    IF name \in DOMAIN inst THEN inst[name] ELSE ClassDefault(name)

\* __setattr__ of a dataclass that is not frozen: the attribute is bound.
PlainSetattr(inst, name, value) ==
    [raised |-> "",
     inst |-> [n \in DOMAIN inst \cup {name} |->
                 IF n = name THEN value ELSE inst[n]]]

\* The __setattr__ that frozen=True generates: type(self) is Scenario, so
\* every assignment raises and the instance is left as it was.
FrozenSetattr(inst, name, value) ==
    [raised |-> "FrozenInstanceError", inst |-> inst]

---------------------------------------------------------------------------
(* The state and its operations                                            *)

\* Heap identities of the instances a caller constructs.
UserIds == {Len(DefaultNames) + 1, Len(DefaultNames) + 2}

\* Identities of the Scenario instances a caller constructs.
ScenarioIds == {1, 2}

\* The entropy the class body's seven constructors may read.
ClassEntropy == {<<0, 5, 0, 5, 0, 5, 0>>, <<5, 0, 3, 0, 5, 0, 6>>}

\* What the log keeps of an instance: its seed, the instance as
\* constructed, and every sample call with what it returned.
Born(seed, obj) == [seed |-> seed, ctor |-> obj, calls |-> <<>>, outs |-> <<>>]

Did(op, scn, name, raised) ==
    [op |-> op, scn |-> scn, name |-> name, raised |-> raised]

RECURSIVE CallsFrom(_)
\* Number of sample calls made on instances i..Len(log).
CallsFrom(i) ==
    IF i > Len(log) THEN 0 ELSE Len(log[i].calls) + CallsFrom(i + 1)

\* A generator kept in one place for all instances.
WriteBackShared(h, i, obj) ==
    [j \in DOMAIN h |-> IF j = i THEN obj ELSE [h[j] EXCEPT !.rand = obj.rand]]

\* self._rand is an attribute of the instance: a call changes the
\* instance it is made on.
WriteBack(h, i, obj) == [h EXCEPT ![i] = obj]

\* Importing the module runs the class body of Scenario.
Init ==
    /\ \E ev \in ClassEntropy : heap = ClassBody(ev)
    /\ log = [i \in DOMAIN heap |-> Born(<<>>, heap[i])]
    /\ scenarios = <<>>
    /\ scnlog = <<>>
    /\ last = Did("import", 0, "", "")

\* Normal(mean, std, minimum, random_state=seed)
NewNormal(mean, std, minimum, seed, e) ==
    /\ Len(heap) + 1 \in UserIds
    /\ heap' = Append(heap, NormalInit(mean, std, minimum, seed, e))
    /\ log' = Append(log, Born(seed, NormalInit(mean, std, minimum, seed, e)))
    /\ last' = Did("Normal", 0, "", "")
    /\ UNCHANGED <<scenarios, scnlog>>

\* Uniform(minimum, maximum, random_state=seed)
NewUniform(minimum, maximum, seed, e) ==
    /\ Len(heap) + 1 \in UserIds
    /\ heap' = Append(heap, UniformInit(minimum, maximum, seed, e))
    /\ log' = Append(log, Born(seed, UniformInit(minimum, maximum, seed, e)))
    /\ last' = Did("Uniform", 0, "", "")
    /\ UNCHANGED <<scenarios, scnlog>>

\* heap[i].sample(size), reached through attribute name of scenario scn
\* (scn = 0: called on the instance directly).
Sample(i, size, scn, name) ==
    /\ CallsFrom(1) < MaxCalls
    /\ LET r == SampleOf(heap[i], size)
       IN  /\ heap' = WriteBack(heap, i, r.self)
           /\ log' = [log EXCEPT ![i].calls = Append(@, size),
                                 ![i].outs = Append(@, r.ret)]
           /\ last' = Did("sample", scn, name,
                          IF r.ret.kind \in {"scalar", "array"} THEN ""
                          ELSE r.ret.kind)
    /\ UNCHANGED <<scenarios, scnlog>>

\* d.sample(size) on an instance the caller constructed.
SampleInst(i, size) ==
    /\ i \in UserIds \cap DOMAIN heap
    /\ Sample(i, size, 0, "")

\* scenario.name.sample(size)
SampleField(s, name, size) ==
    /\ s \in DOMAIN scenarios
    /\ GetAttr(scenarios[s], name).tag = "ref"
    /\ Sample(GetAttr(scenarios[s], name).val, size, s, name)

\* Scenario(**kw)
NewScenario(kw) ==
    /\ Len(scenarios) + 1 \in ScenarioIds
    /\ LET r == ScenarioInit(kw)
           key == IF DOMAIN kw = {} THEN "" ELSE CHOOSE k \in DOMAIN kw : TRUE
       IN  IF r.raised = ""
           THEN /\ scenarios' = Append(scenarios, r.inst)
                /\ scnlog' = Append(scnlog, [kw |-> kw, ctor |-> r.inst])
                /\ last' = Did("Scenario", Len(scenarios) + 1, key, "")
           ELSE /\ UNCHANGED <<scenarios, scnlog>>
                /\ last' = Did("Scenario", 0, key, r.raised)
    /\ UNCHANGED <<heap, log>>

\* scenario.name = value
SetAttr(s, name, value) ==
    /\ s \in DOMAIN scenarios
    /\ LET r == FrozenSetattr(scenarios[s], name, value)
       IN  /\ scenarios' = [scenarios EXCEPT ![s] = r.inst]
           /\ last' = Did("setattr", s, name, r.raised)
    /\ UNCHANGED <<heap, log, scnlog>>

---------------------------------------------------------------------------
(* Inputs                                                                  *)

\* Constructor arguments tried for Normal: a valid and a negative std,
\* with and without a lower bound.
Means == {1 * Scale}
Stds == {-1 * Scale, 1 * Scale}
Minimums == {<<>>, <<1 * Scale>>}

\* Constructor arguments tried for Uniform: an empty range, a range of one
\* grid unit, a range of 1.0, and an inverted range.
Ranges == {<<0, 0>>, <<0, 1>>, <<0, 1 * Scale>>, <<1 * Scale, 0>>}

\* random_state: None or an integer seed.
SeedArgs == {<<>>} \cup {<<s>> : s \in Seeds}

\* Keyword arguments tried for Scenario: none, or one name, a scalar's
\* with a number and any other with the instance the caller constructed.
NoKw == [n \in {} |-> Num(0)]
OneKw(k, v) == [n \in {k} |-> v]
FirstUser == Len(DefaultNames) + 1
KwValue(k) == IF k \in ScalarFieldNames THEN Num(100) ELSE Ref(FirstUser)
KwNames == ParamNames \cup {"note"}

\* The Distribution classes on their own.
NextD ==
    \/ \E mean \in Means, std \in Stds, minimum \in Minimums,
          seed \in SeedArgs, e \in Entropy :
          NewNormal(mean, std, minimum, seed, e)
    \/ \E r \in Ranges, seed \in SeedArgs, e \in Entropy :
          NewUniform(r[1], r[2], seed, e)
    \/ \E i \in UserIds, size \in Sizes : SampleInst(i, size)

SpecD == Init /\ [][NextD]_vars

\* Constructing Scenario instances and assigning to their attributes.
NextC ==
    \/ \E e \in Entropy :
          Len(heap) < FirstUser /\ NewUniform(0, 1 * Scale, <<1>>, e)
    \/ NewScenario(NoKw)
    \/ \E k \in KwNames :
          FirstUser \in DOMAIN heap /\ NewScenario(OneKw(k, KwValue(k)))
    \/ \E s \in ScenarioIds, k \in KwNames :
          FirstUser \in DOMAIN heap /\ SetAttr(s, k, KwValue(k))

SpecC == Init /\ [][NextC]_vars

\* Replications: default Scenario instances sampled through their fields.
NextF ==
    \/ NewScenario(NoKw)
    \/ \E s \in ScenarioIds, name \in DistNames, size \in Sizes :
          SampleField(s, name, size)

SpecF == Init /\ [][NextF]_vars

---------------------------------------------------------------------------
(* Reading the log                                                         *)

Normals == {i \in DOMAIN heap : log[i].ctor.cls = "Normal"}
Uniforms == {i \in DOMAIN heap : log[i].ctor.cls = "Uniform"}

\* The places (call k, element t) of the values instance i has returned.
Places(i) ==
    {p \in (DOMAIN log[i].outs) \X {1, 2} : p[2] \in DOMAIN log[i].outs[p[1]].vals}

ValueAt(i, p) == log[i].outs[p[1]].vals[p[2]]

RECURSIVE DrawnBefore(_, _)
\* Number of variates the first k - 1 calls of instance i asked for.
DrawnBefore(i, k) ==
    IF k <= 1 THEN 0
    ELSE DrawnBefore(i, k - 1) + Count(log[i].calls[k - 1])

\* The variate of the generator's stream that place p of Normal instance
\* i falls on, counted from the state the instance was constructed with.
StreamAt(i, p) ==
    RandNormal(StateAt(log[i].ctor.rand, DrawnBefore(i, p[1]) + p[2] - 1),
               log[i].ctor.mean, log[i].ctor.std)

\* An instance with its generator state left out.
Settings(obj) == [obj EXCEPT !.rand = 0]

RECURSIVE Replay(_, _)
\* The calls made on an instance as constructed, and on nothing else.
Replay(obj, calls) ==
    IF calls = <<>> THEN [self |-> obj, outs |-> <<>>]
    ELSE LET prev == Replay(obj, SubSeq(calls, 1, Len(calls) - 1))
             r == SampleOf(prev.self, calls[Len(calls)])
         IN  [self |-> r.self, outs |-> Append(prev.outs, r.ret)]

---------------------------------------------------------------------------
(* Claims                                                                  *)

\* C1: every value a Normal constructed with minimum = m has returned,
\* scalar or element of a batch, at any call, is >= m.
C1_Floor ==
    \A i \in Normals :
        log[i].ctor.minimum # <<>> =>
            \A p \in Places(i) : ValueAt(i, p) >= log[i].ctor.minimum[1]

\* A batch, after an earlier call, one of whose variates fell below m.
C1_Witness ==
    \E i \in Normals :
        /\ log[i].ctor.minimum # <<>>
        /\ \E p \in Places(i) :
              /\ p[1] >= 2
              /\ log[i].outs[p[1]].kind = "array"
              /\ StreamAt(i, p) < log[i].ctor.minimum[1]
              /\ ValueAt(i, p) = log[i].ctor.minimum[1]

\* C2: a sample call through a field of one default Scenario leaves the
\* generator of the same field of another default Scenario where it was.
C2_OwnDefaults ==
    [][\A s \in DOMAIN scenarios, t \in DOMAIN scenarios, f \in DistNames :
          (/\ s # t
           /\ DOMAIN scnlog[s].kw = {}
           /\ DOMAIN scnlog[t].kw = {}
           /\ last'.op = "sample" /\ last'.scn = s /\ last'.name = f)
          => heap'[GetAttr(scenarios[t], f).val].rand
               = heap[GetAttr(scenarios[t], f).val].rand]_vars

C4_Frozen ==
    /\ last.op = "setattr" => last.raised = "FrozenInstanceError"
    /\ \A s \in DOMAIN scenarios : scenarios[s] = scnlog[s].ctor

\* An assignment to a field of a constructed Scenario was attempted.
C4_Witness ==
    /\ last.op = "setattr"
    /\ last.scn \in DOMAIN scenarios
    /\ last.name \in FieldNames

\* C5: what an instance has returned, and its generator state, are what
\* its own calls alone produce from the instance as constructed, however
\* the calls on another instance were interleaved.
C5_OwnStream ==
    \A i \in DOMAIN heap :
        LET alone == Replay(log[i].ctor, log[i].calls)
        IN  /\ log[i].outs = alone.outs
            /\ heap[i] = alone.self

\* Both of two instances were sampled, one of them twice.
C5_Witness ==
    \E i \in DOMAIN heap, j \in DOMAIN heap :
        /\ i # j
        /\ Len(log[i].calls) = 2
        /\ Len(log[j].calls) = 1
        /\ \A k \in DOMAIN log[i].outs : log[i].outs[k].vals # <<>>
        /\ log[j].outs[1].vals # <<>>

\* C6: no Normal with std < 0 and no Uniform with minimum > maximum is
\* ever created.
C6_FailFast ==
    \A i \in DOMAIN heap :
        IF heap[i].cls = "Normal" THEN heap[i].std >= 0
        ELSE heap[i].minimum <= heap[i].maximum

\* C7 as stated: every value of a Uniform with minimum <= maximum lies
\* in [minimum, maximum).
C7_HalfOpen ==
    \A i \in Uniforms :
        log[i].ctor.minimum <= log[i].ctor.maximum =>
            \A p \in Places(i) :
                /\ log[i].ctor.minimum <= ValueAt(i, p)
                /\ ValueAt(i, p) < log[i].ctor.maximum

\* C7 as amended: every value of a Uniform with minimum <= maximum lies
\* in the closed interval [minimum, maximum].
C7_Closed ==
    \A i \in Uniforms :
        log[i].ctor.minimum <= log[i].ctor.maximum =>
            \A p \in Places(i) :
                /\ log[i].ctor.minimum <= ValueAt(i, p)
                /\ ValueAt(i, p) <= log[i].ctor.maximum

\* A Uniform over a proper range returned a batch after a scalar, with a
\* value strictly inside the range.
C7_Witness ==
    \E i \in Uniforms :
        /\ log[i].ctor.minimum < log[i].ctor.maximum
        /\ Len(log[i].outs) >= 2
        /\ log[i].outs[1].kind = "scalar"
        /\ log[i].outs[2].kind = "array"
        /\ \E p \in Places(i) :
              /\ p[1] = 2
              /\ log[i].ctor.minimum < ValueAt(i, p)
              /\ ValueAt(i, p) < log[i].ctor.maximum

\* C8: construction accepts every parameter as a keyword; the instance
\* holds the value given for it, and the default for every other.
C8_Overrides ==
    /\ (last.op = "Scenario" /\ last.name \in ParamNames) => last.raised = ""
    /\ \A s \in DOMAIN scenarios : \A n \in ParamNames :
          GetAttr(scenarios[s], n) =
              IF n \in DOMAIN scnlog[s].kw THEN scnlog[s].kw[n]
              ELSE ClassDefault(n)

\* C9: each value a Normal returns is one variate of the stream, raised
\* to the minimum if below it and otherwise unchanged; a call for n values
\* returns n and moves the generator by n.
C9_Clamp ==
    \A i \in Normals :
        log[i].ctor.std >= 0 =>
            /\ \A k \in DOMAIN log[i].calls :
                  Len(log[i].outs[k].vals) = Count(log[i].calls[k])
            /\ \A p \in Places(i) :
                  ValueAt(i, p) =
                      IF log[i].ctor.minimum # <<>>
                         /\ StreamAt(i, p) < log[i].ctor.minimum[1]
                      THEN log[i].ctor.minimum[1]
                      ELSE StreamAt(i, p)
            /\ heap[i].rand =
                  StateAt(log[i].ctor.rand,
                          DrawnBefore(i, Len(log[i].calls) + 1))

\* A batch, after an earlier call, with one variate raised to the minimum
\* and one above it returned unchanged.
C9_Witness ==
    \E i \in Normals :
        /\ log[i].ctor.minimum # <<>>
        /\ \E p \in Places(i), q \in Places(i) :
              /\ p[1] >= 2
              /\ q[1] = p[1]
              /\ StreamAt(i, p) < log[i].ctor.minimum[1]
              /\ ValueAt(i, p) = log[i].ctor.minimum[1]
              /\ StreamAt(i, q) > log[i].ctor.minimum[1]
              /\ ValueAt(i, q) = StreamAt(i, q)

\* C10: after any calls of sample, every instance has the parameters it
\* was constructed with, and every Scenario holds what it was constructed
\* with.
C10_Frame ==
    /\ \A i \in DOMAIN heap : Settings(heap[i]) = Settings(log[i].ctor)
    /\ \A s \in DOMAIN scenarios : scenarios[s] = scnlog[s].ctor

\* The Normal and a Uniform of a Scenario were both sampled.
C10_Witness ==
    /\ scenarios # <<>>
    /\ \E i \in Normals, j \in Uniforms :
          /\ Len(log[i].calls) = 2
          /\ log[i].outs[1].kind = "scalar"
          /\ heap[i].rand # log[i].ctor.rand
          /\ Len(log[j].calls) = 1
          /\ heap[j].rand # log[j].ctor.rand

====
